---- MODULE Spec2Model ----
(***************************************************************************)
(* Transaction-bundle assembly and submission pipeline of the Solana       *)
(* bundler: transaction builders, the swap-bundle assembler                *)
(* (createWalletSwapsV2), the bundle submitters (sendBundleV2 inside        *)
(* buyBundleV2, BuyTokenV2.processBuyChunk) and the lookup-table provider   *)
(* (LookupTableProviderV2).                                                *)
(*                                                                         *)
(* Each subsystem has its own specification over the shared variables:     *)
(*   SpecBuilder  - buildTxnV2 / buildSimpleTxnV2 / buildPureV2Transaction  *)
(*   SpecSwaps    - chunkArray and createWalletSwapsV2                      *)
(*   SpecBundle   - buyBundleV2 + sendBundleV2, and processBuyChunk         *)
(*   SpecRetry    - processBuyChunk with a deeper retry loop               *)
(*   SpecLutCache - getLookupTableAddresses and its cache                   *)
(*   SpecLutExtend- the same while tables are extended on chain            *)
(*   SpecLutSelect- computeIdealLookupTablesForAddresses                    *)
(*   SpecTips     - the producers of tipped transaction lists              *)
(*   SpecStateFile- the writers of keyInfoV2.json                          *)
(* The variables of the subsystems a specification does not run keep their *)
(* idle values.                                                            *)
(***************************************************************************)
EXTENDS Integers, Sequences, FiniteSets, TLC

VARIABLES
  \* ---- transaction builders (createLUTV2.ts) ----
  bBuilder,      \* which builder is called
  bSigners,      \* number of required signatures of the compiled message
  bMsgLen,       \* byte length of the compiled message
  bRpcOk,        \* does getLatestBlockhash succeed
  bResult,       \* what the call produced ("none" before the call)
  \* ---- createWalletSwapsV2 (createKeysV2.ts) ----
  swCount,       \* number of keypairs passed in (keypairs are 1..swCount)
  swBad,         \* keypairs whose private key cannot be extracted
  swWalletOk,    \* can the fee payer's private key be extracted
  swLut,         \* what the shared lookup table covers
  swResult,      \* result of the call
  \* ---- bundle submission (createKeysV2.ts buyBundleV2/sendBundleV2,
  \*      BuyTokenV2.processBuyChunk) ----
  caller,        \* "buyBundleV2" or "processBuyChunk"
  pc,            \* where the caller is
  now,           \* milliseconds since the start
  iterations,    \* buyBundleV2: prompted number of iterations
  delaySeconds,  \* buyBundleV2: prompted delay between iterations
  maxRetries,    \* processBuyChunk: params.maxRetries
  keyCount,      \* keypairs (buyBundleV2) / keypairs of the chunk
  walletKeyOk,   \* buyBundleV2: can the fee payer's key be extracted
  lutCover,      \* buyBundleV2: what the shared lookup table covers
  iter,          \* buyBundleV2: loop variable i
  attempt,       \* processBuyChunk: loop variable attempt
  blockhashes,   \* number of blockhashes fetched so far (each one is new)
  bundledTxns,   \* bundledTxns / signedTransactions
  submits,       \* bundles the relay accepted for processing, in order
  events,        \* pending timers and relay messages
  arrived,       \* relay messages delivered so far
  waits,         \* the Promise.race of every submitted bundle
  outcomes,      \* buyBundleV2: how each sendBundleV2 call ended
  bundleResults, \* processBuyChunk: its return value
  \* ---- lookup-table provider (LookupTableProviderV2.ts) ----
  lutOnChain,    \* address list of every lookup table that exists on chain
  lookupTableCache,              \* table -> cached address list
  addressToLookupTablesMapping,  \* address -> tables holding it, as inserted
  lutCalls,      \* calls of getLookupTableAddresses, in the order they began
  lutSelection,  \* last call of computeIdealLookupTablesForAddresses
  \* ---- Jito tips (createLUTV2.ts, createKeysV2.ts) ----
  tipProducer,   \* which producer of a transaction list is called
  tipItems,      \* number of instructions / addresses / keypairs passed in
  tipAmount,     \* requested tip, in thousandths of a SOL
  tipResult,     \* the transactions returned, each as its instruction list
  \* ---- persisted state file (createLUTV2.ts, createKeysV2.ts) ----
  stateFile,     \* keyInfoV2.json
  lastWrite,     \* the last read-modify-write of the file
  \* ---- getMarketInfo (poolKeysReassignedV2.ts) ----
  mkPc,          \* position in getMarketInfo
  mkReqs,        \* reqs
  mkResponses,   \* marketInfoResponse.value of every request made, in order
  mkResult,      \* what getMarketInfo returned
  \* ---- chunking loops (createLUTV2.ts, BuyTokenV2) ----
  ckLoop,        \* which chunking loop runs
  ckLen,         \* length of the list passed in
  ckSize,        \* chunk size passed in
  ckI,           \* the loop variable i
  ckChunks,      \* chunks pushed so far, each as the list of its indices
  ckPc           \* position in the loop

builderVars == <<bBuilder, bSigners, bMsgLen, bRpcOk, bResult>>
swapVars    == <<swCount, swBad, swWalletOk, swLut, swResult>>
bundleVars  == <<caller, pc, now, iterations, delaySeconds, maxRetries, keyCount,
                 walletKeyOk, lutCover, iter, attempt, blockhashes, bundledTxns,
                 submits, events, arrived, waits, outcomes, bundleResults>>
lutVars     == <<lutOnChain, lookupTableCache, addressToLookupTablesMapping,
                 lutCalls, lutSelection>>
tipVars     == <<tipProducer, tipItems, tipAmount, tipResult>>
fileVars    == <<stateFile, lastWrite>>
marketVars  == <<mkPc, mkReqs, mkResponses, mkResult>>
chunkVars   == <<ckLoop, ckLen, ckSize, ckI, ckChunks, ckPc>>
vars        == <<builderVars, swapVars, bundleVars, lutVars, tipVars, fileVars,
                 marketVars, chunkVars>>

Min(a, b) == IF a < b THEN a ELSE b
CeilDiv(a, b) == (a + b - 1) \div b

RECURSIVE Flatten(_)
Flatten(ss) == IF ss = <<>> THEN <<>> ELSE Head(ss) \o Flatten(Tail(ss))

Range(s) == {s[i] : i \in 1..Len(s)}

(***************************************************************************)
(* Wire format.  A serialized transaction is a compact-u16 signature count, *)
(* one 64-byte signature slot per required signer (zero-filled until       *)
(* signed) and the compiled message.                                       *)
(***************************************************************************)
MAX_TRANSACTION_SIZE == 1232

CompactLen(n) == IF n < 128 THEN 1 ELSE IF n < 16384 THEN 2 ELSE 3

SerializedSize(nSigners, msgLen) == CompactLen(nSigners) + 64 * nSigners + msgLen

\* MessageV0.serialize() encodes into a buffer of one packet: a longer
\* message makes the legacy compile/serialize path throw.
LegacyMessageOverruns(msgLen) == msgLen > MAX_TRANSACTION_SIZE

(***************************************************************************)
(* Transaction builders.  The instruction list and lookup tables are       *)
(* represented by what compiling them yields: the number of required       *)
(* signers and the byte length of the compiled message.                    *)
(***************************************************************************)
MaxBuilderSigners == 4

Builders == {"buildTxnV2", "buildSimpleTxnV2", "buildPureV2Transaction"}

\* Message lengths around every size boundary, for every signer count.
MessageLens ==
  {100, MAX_TRANSACTION_SIZE, MAX_TRANSACTION_SIZE + 1, MAX_TRANSACTION_SIZE + 300}
  \cup {MAX_TRANSACTION_SIZE - SerializedSize(k, 0) + d :
          k \in 1..MaxBuilderSigners, d \in {0, 1}}

NoResult == [kind |-> "none", size |-> 0, error |-> "none", reported |-> 0]
BuiltTx(size) == [kind |-> "tx", size |-> size, error |-> "none", reported |-> 0]
BuildError(error, reported) ==
  [kind |-> "error", size |-> 0, error |-> error, reported |-> reported]

\* buildTxnV2: blockhash, compileToV0Message, new VersionedTransaction,
\* size check on versionedTx.serialize().length, everything inside try/catch
\* that rethrows "Failed to build V2 transaction: <error>".
buildTxnV2(nSigners, msgLen, rpcOk) ==
  IF ~rpcOk THEN BuildError("BlockhashFetchFailed", 0)
  ELSE IF LegacyMessageOverruns(msgLen) THEN BuildError("EncodingOverrun", 0)
  ELSE LET serializedSize == SerializedSize(nSigners, msgLen)
       IN IF serializedSize > MAX_TRANSACTION_SIZE
          THEN BuildError("TransactionTooLarge", serializedSize)
          ELSE BuiltTx(serializedSize)

\* buildSimpleTxnV2: same compile path, the size is only logged.
buildSimpleTxnV2(nSigners, msgLen, rpcOk) ==
  IF ~rpcOk THEN BuildError("BlockhashFetchFailed", 0)
  ELSE IF LegacyMessageOverruns(msgLen) THEN BuildError("EncodingOverrun", 0)
  ELSE BuiltTx(SerializedSize(nSigners, msgLen))

\* buildPureV2Transaction: compileTransaction, then the check compares
\* transaction.messageBytes.length (the message without its signatures).
buildPureV2Transaction(nSigners, msgLen, rpcOk) ==
  IF ~rpcOk THEN BuildError("BlockhashFetchFailed", 0)
  ELSE LET serializedSize == msgLen
       IN IF serializedSize > MAX_TRANSACTION_SIZE
          THEN BuildError("TransactionTooLarge", serializedSize)
          ELSE BuiltTx(SerializedSize(nSigners, msgLen))

BuilderIdle ==
  /\ bBuilder = "none" /\ bSigners = 0 /\ bMsgLen = 0 /\ bRpcOk = TRUE
  /\ bResult = NoResult

BuilderInit ==
  /\ bBuilder \in Builders
  /\ bSigners \in 1..MaxBuilderSigners
  /\ bMsgLen \in MessageLens
  /\ bRpcOk \in BOOLEAN
  /\ bResult = NoResult

CallBuildTxnV2 ==
  /\ bBuilder = "buildTxnV2" /\ bResult = NoResult
  /\ bResult' = buildTxnV2(bSigners, bMsgLen, bRpcOk)
  /\ UNCHANGED <<bBuilder, bSigners, bMsgLen, bRpcOk>>

CallBuildSimpleTxnV2 ==
  /\ bBuilder = "buildSimpleTxnV2" /\ bResult = NoResult
  /\ bResult' = buildSimpleTxnV2(bSigners, bMsgLen, bRpcOk)
  /\ UNCHANGED <<bBuilder, bSigners, bMsgLen, bRpcOk>>

CallBuildPureV2Transaction ==
  /\ bBuilder = "buildPureV2Transaction" /\ bResult = NoResult
  /\ bResult' = buildPureV2Transaction(bSigners, bMsgLen, bRpcOk)
  /\ UNCHANGED <<bBuilder, bSigners, bMsgLen, bRpcOk>>


(***************************************************************************)
(* Bundle assembler: chunkArray and createWalletSwapsV2.                   *)
(* Keypairs are numbered 1..n; Wallet is the fee payer (config.wallet).     *)
(***************************************************************************)
MaxKeypairs == 21
MaxBadKeypairs == 1

Wallet == 0

ChunkSize == 7

\* what the shared lookup table holds: the 15 pool/market accounts of the
\* swap instruction and every keypair's two token accounts, the pool
\* accounts alone, or none of them
LutCoverages == {"all", "pool", "none"}

\* A chunking that rounds the number of chunks down (not what the code does).
chunkArray_DropsTail(array, size) ==
  [i \in 1..(Len(array) \div size) |->
     SubSeq(array, (i - 1) * size + 1, Min(i * size, Len(array)))]

\* chunkArray: Array.from({length: ceil(len/size)}, (v, i) => slice(i*size, i*size+size))
chunkArray(array, size) ==
  [i \in 1..CeilDiv(Len(array), size) |->
     SubSeq(array, (i - 1) * size + 1, Min(i * size, Len(array)))]

\* extractPrivateKeyAsBase64 depends only on the signer object: it either
\* yields the key or throws, the same way every time it is called.
CanExtract(k, bad, walletOk) == IF k = Wallet THEN walletOk ELSE k \notin bad

\* A chunk that is given up when one of its signers fails (not what the
\* code does).
ChunkInstructionSigners_AllOrNothing(chunk, bad) ==
  IF \A k \in Range(chunk) : CanExtract(k, bad, TRUE) THEN chunk ELSE <<>>

\* The signers of a chunk whose swap instruction is pushed into
\* instructionsForChunk (the others are logged and skipped); makeBuyV2 with
\* reverse = false yields exactly one instruction per signer.
ChunkInstructionSigners(chunk, bad) ==
  SelectSeq(chunk, LAMBDA k : CanExtract(k, bad, TRUE))

\* Byte length of the compiled v0 message of a chunk with nIx swap
\* instructions (19 account indexes and 17 data bytes each): version prefix,
\* header, static keys (payer, one signer per instruction, the AMM program,
\* and every account the table does not hold), blockhash, instructions and
\* the table lookup.
SwapMessageLen(nIx, lut) ==
  LET shared   == IF nIx = 0 THEN 0 ELSE 15
      atas     == 2 * nIx
      loaded   == (IF lut \in {"all", "pool"} THEN shared ELSE 0)
                  + (IF lut = "all" THEN atas ELSE 0)
      static   == 1 + nIx + (IF nIx = 0 THEN 0 ELSE 1) + (shared + atas - loaded)
      ixBytes  == nIx * (1 + CompactLen(19) + 19 + CompactLen(17) + 17)
      lookups  == IF loaded = 0 THEN 0 ELSE 32 + 1 + 1 + loaded
  IN 1 + 3 + CompactLen(static) + 32 * static + 32
       + CompactLen(nIx) + ixBytes + 1 + lookups

\* One chunk's transaction.  Its size is logged, and "Transaction too big" is
\* logged above 1232 bytes; nothing else depends on the size.
SwapTx(blockhash, chunkIndex, nChunks, chunk, bad, walletOk, lut) ==
  LET ixSigners == ChunkInstructionSigners(chunk, bad)
  IN [blockhash |-> blockhash,
      chunk     |-> chunkIndex,
      ixSigners |-> ixSigners,
      signedBy  |-> (IF chunkIndex = nChunks /\ walletOk THEN {Wallet} ELSE {})
                      \cup {k \in Range(chunk) : CanExtract(k, bad, walletOk)},
      size      |-> SerializedSize(1 + Len(ixSigners),
                                   SwapMessageLen(Len(ixSigners), lut))]

\* The chunk loop of createWalletSwapsV2 from chunk i on; acc is txsSigned.
RECURSIVE SwapsFrom(_, _, _, _, _, _, _)
SwapsFrom(chunks, i, bad, walletOk, lut, blockhash, acc) ==
  IF i > Len(chunks) THEN [threw |-> FALSE, txs |-> acc]
  ELSE LET tx == SwapTx(blockhash, i, Len(chunks), chunks[i], bad, walletOk, lut)
       IN IF LegacyMessageOverruns(SwapMessageLen(Len(tx.ixSigners), lut))
          THEN [threw |-> TRUE, txs |-> <<>>]
          ELSE IF i = Len(chunks) /\ ~CanExtract(Wallet, bad, walletOk)
          THEN SwapsFrom(chunks, i + 1, bad, walletOk, lut, blockhash, acc)
          ELSE SwapsFrom(chunks, i + 1, bad, walletOk, lut, blockhash,
                         Append(acc, tx))

createWalletSwapsV2(keypairs, bad, walletOk, lut, blockhash) ==
  SwapsFrom(chunkArray(keypairs, ChunkSize), 1, bad, walletOk, lut, blockhash, <<>>)

Keypairs(n) == [i \in 1..n |-> i]

NoSwaps == [threw |-> FALSE, txs |-> <<>>, called |-> FALSE]

SwapsIdle ==
  /\ swCount = 0 /\ swBad = {} /\ swWalletOk = TRUE /\ swLut = "all"
  /\ swResult = NoSwaps

SwapsInit ==
  /\ swCount \in 0..MaxKeypairs
  /\ swBad \in {b \in SUBSET (1..swCount) : Cardinality(b) <= MaxBadKeypairs}
  /\ swWalletOk \in BOOLEAN
  /\ swLut \in LutCoverages
  /\ swResult = NoSwaps

CallCreateWalletSwapsV2 ==
  /\ ~swResult.called
  /\ LET r == createWalletSwapsV2(Keypairs(swCount), swBad, swWalletOk, swLut, 1)
     IN swResult' = [threw |-> r.threw, txs |-> r.txs, called |-> TRUE]
  /\ UNCHANGED <<swCount, swBad, swWalletOk, swLut>>


(***************************************************************************)
(* Bundle submission.                                                      *)
(*                                                                         *)
(* Time is event driven: `events` holds the pending timers (setTimeout)    *)
(* and the messages the relay will push on the bundle-result stream; the   *)
(* event loop fires the earliest one.  Every onBundleResult call opens a   *)
(* stream whose result callback receives every bundle result the relay     *)
(* pushes from then on; a callback of a settled race has no effect.        *)
(***************************************************************************)
MaxIterations == 2
MaxRetries == 2

BundleTimeoutMs == 30000
RetrySleepMs == 2000

NotifyKinds == {"accepted", "rejected", "dropped"}
NotifyDelays == {2000, 30000, 33000}
StreamErrorDelays == {2000}
DelaySecondsChoices == {0, 5}

TimeoutMessage == "Bundle result timeout after 30 seconds"
StreamErrorMessage == "bundle result stream error"
SubmitErrorMessage == "sendBundle failed"

Event(type, at, ref, kind) == [type |-> type, at |-> at, ref |-> ref, kind |-> kind]

Earliest(e) == e \in events /\ \A f \in events : e.at <= f.at

\* what the relay does with a bundle it accepted for processing: stays
\* silent, or pushes one result after some delay
RelayResponses(id, at) ==
  {{}} \cup {{Event("result", at + d, id, k)} : k \in NotifyKinds, d \in NotifyDelays}

\* what happens to the stream opened by onBundleResult for wait w
StreamFaults(w, at) ==
  {{}} \cup {{Event("streamError", at + d, w, "none")} : d \in StreamErrorDelays}

\* A timer of twice the length (not what the code does).
TimerDeadline_Minute(start) == start + 2 * BundleTimeoutMs

\* setTimeout(() => reject(new Error('Bundle result timeout ...')), 30000)
TimerDeadline(start) == start + BundleTimeoutMs

Wait(submit, start) ==
  [submit |-> submit, start |-> start, end |-> -1, by |-> "pending",
   about |-> 0, value |-> "none"]

Settled(w, at, by, about, value) ==
  [w EXCEPT !.end = at, !.by = by, !.about = about, !.value = value]

CurrentWait == Len(waits)

\* searcherClient.sendBundle succeeded and the Promise.race is set up:
\* the bundle is recorded, the relay and the stream choose what they will
\* do, and the 30-second timer is armed.
SubmitAndAwait ==
  LET id == Len(submits) + 1
      w  == Len(waits) + 1
  IN /\ submits' = Append(submits, [id |-> id, build |-> blockhashes,
                                    txs |-> bundledTxns, at |-> now])
     /\ waits' = Append(waits, Wait(id, now))
     /\ \E resp \in RelayResponses(id, now), fault \in StreamFaults(w, now) :
          events' = events \cup resp \cup fault
                      \cup {Event("timer", TimerDeadline(now), w, "none")}

\* the event loop runs the callback of the earliest pending event; `during`
\* is the race the callback settles (0 if it settles none)
Fire(e, during) ==
  /\ Earliest(e)
  /\ now' = e.at
  /\ arrived' = IF e.type \in {"result", "streamError"}
                THEN arrived \cup {[type |-> e.type, at |-> e.at, ref |-> e.ref,
                                    kind |-> e.kind, during |-> during]}
                ELSE arrived

\* ---------------- buyBundleV2 / sendBundleV2 ----------------

Outcome(kind, value, message) ==
  [iter |-> iter, kind |-> kind, value |-> value, message |-> message]

\* createPoolTransactionV2 returns null on both of its paths
createPoolTransactionV2 == <<>>

\* Swap transactions put in front of the list one by one, which reverses
\* them (not what the code does).
PushBundledTxns_Unshift(txns, poolCreationResult, txMainSwaps) ==
  [i \in 1..Len(txMainSwaps) |-> txMainSwaps[Len(txMainSwaps) + 1 - i]]
    \o poolCreationResult \o txns

\* if (poolCreationResult) bundledTxns.push(poolCreationResult);
\* bundledTxns.push(...txMainSwaps)
PushBundledTxns(txns, poolCreationResult, txMainSwaps) ==
  txns \o poolCreationResult \o txMainSwaps

\* one loop iteration up to the sendBundleV2 call: fresh blockhashes, pool
\* transaction (never present), swap transactions pushed to bundledTxns
BuildIteration ==
  /\ caller = "buyBundleV2" /\ pc = "build"
  /\ blockhashes' = blockhashes + 1
  /\ LET swaps == createWalletSwapsV2(Keypairs(keyCount), {}, walletKeyOk, lutCover,
                                      blockhashes')
     IN IF swaps.threw
        THEN pc' = "thrown" /\ UNCHANGED bundledTxns
        ELSE /\ pc' = "send"
             /\ bundledTxns' = PushBundledTxns(bundledTxns, createPoolTransactionV2,
                                             swaps.txs)
  /\ UNCHANGED <<caller, now, iterations, delaySeconds, maxRetries, keyCount,
                 walletKeyOk, lutCover, iter, attempt, submits, events, arrived,
                 waits, outcomes, bundleResults>>

\* A delay that is not waited for (not what the code does).
IterationDelayMs_None(seconds) == 0

\* delaySeconds * 1000
IterationDelayMs(seconds) == seconds * 1000

\* await new Promise(resolve => setTimeout(resolve, delaySeconds * 1000))
StartIterationDelay(evs) ==
  /\ events' = evs \cup {Event("sleep", now' + IterationDelayMs(delaySeconds), 0, "none")}
  /\ pc' = "sleep"

\* sendBundleV2 up to its await of the race: an empty bundle is skipped,
\* sendBundle either throws (the error is logged and rethrown, and leaves
\* buyBundleV2) or returns the bundle id.
SendBundleV2 ==
  /\ caller = "buyBundleV2" /\ pc = "send"
  /\ now' = now
  /\ \/ /\ Len(bundledTxns) = 0
        /\ outcomes' = Append(outcomes, Outcome("skipped", "none", "none"))
        /\ StartIterationDelay(events)
        /\ UNCHANGED <<submits, waits>>
     \/ /\ Len(bundledTxns) > 0
        /\ outcomes' = Append(outcomes, Outcome("thrown", "none", SubmitErrorMessage))
        /\ pc' = "thrown"
        /\ UNCHANGED <<submits, waits, events>>
     \/ /\ Len(bundledTxns) > 0
        /\ SubmitAndAwait
        /\ pc' = "wait"
        /\ UNCHANGED outcomes
  /\ UNCHANGED <<caller, iterations, delaySeconds, maxRetries, keyCount, walletKeyOk,
                 lutCover, iter, attempt, blockhashes, bundledTxns, arrived,
                 bundleResults>>

\* the result callback resolves the race: sendBundleV2 returns the result,
\* whatever it says and whichever bundle it is about, and buyBundleV2 goes
\* on to its delay
SendBundleV2_Result(e) ==
  /\ caller = "buyBundleV2" /\ pc = "wait" /\ e.type = "result"
  /\ Fire(e, CurrentWait)
  /\ waits' = [waits EXCEPT ![CurrentWait] = Settled(@, e.at, "result", e.ref, e.kind)]
  /\ outcomes' = Append(outcomes, Outcome("returned", e.kind, "none"))
  /\ StartIterationDelay(events \ {e})
  /\ UNCHANGED <<caller, iterations, delaySeconds, maxRetries, keyCount, walletKeyOk,
                 lutCover, iter, attempt, blockhashes, bundledTxns, submits,
                 bundleResults>>

\* the race rejects (stream error callback or timer): the catch block logs
\* and rethrows err, which leaves buyBundleV2
SendBundleV2_Rejected(e) ==
  /\ caller = "buyBundleV2" /\ pc = "wait"
  /\ e.type \in {"streamError", "timer"} /\ e.ref = CurrentWait
  /\ Fire(e, CurrentWait)
  /\ events' = events \ {e}
  /\ waits' = [waits EXCEPT ![CurrentWait] = Settled(@, e.at, e.type, 0, "none")]
  /\ outcomes' = Append(outcomes,
        Outcome("thrown", "none",
                IF e.type = "timer" THEN TimeoutMessage ELSE StreamErrorMessage))
  /\ pc' = "thrown"
  /\ UNCHANGED <<caller, iterations, delaySeconds, maxRetries, keyCount, walletKeyOk,
                 lutCover, iter, attempt, blockhashes, bundledTxns, submits,
                 bundleResults>>

\* A list that keeps its transactions for the next iteration (not what the
\* code does).
ClearBundledTxns_Keep(txns) == txns

\* bundledTxns.length = 0
ClearBundledTxns(txns) == <<>>

\* the delay ends: bundledTxns.length = 0 and the loop goes on
IterationDelayEnds(e) ==
  /\ caller = "buyBundleV2" /\ pc = "sleep" /\ e.type = "sleep"
  /\ Fire(e, 0)
  /\ events' = events \ {e}
  /\ bundledTxns' = ClearBundledTxns(bundledTxns)
  /\ iter' = iter + 1
  /\ pc' = IF iter + 1 < iterations THEN "build" ELSE "done"
  /\ UNCHANGED <<caller, iterations, delaySeconds, maxRetries, keyCount, walletKeyOk,
                 lutCover, attempt, blockhashes, submits, waits, outcomes,
                 bundleResults>>


\* ---------------- BuyTokenV2.processBuyChunk ----------------

SwapSuccess == [success |-> TRUE, prefix |-> "none", error |-> "none"]
SwapFailure(prefix, error) == [success |-> FALSE, prefix |-> prefix, error |-> error]

\* raydium.liquidity.swap builds one transaction per keypair of the chunk
RaydiumTx(hash, k) == [blockhash |-> hash, feePayer |-> k]

PoolNotFound == "Pool not found"
BlockhashError == "getLatestBlockhash failed"
SwapBuildError == "swap transaction failed"

\* "for (const keypair of keypairs)": one swap transaction per keypair; the
\* inner catch logs and rethrows, so the first keypair whose swap cannot be
\* built ends the loop with an error.
BuildSwapTransactions(n, hash, failing) ==
  IF failing \cap (1..n) # {}
  THEN [threw |-> TRUE, txs |-> <<>>]
  ELSE [threw |-> FALSE, txs |-> [k \in 1..n |-> RaydiumTx(hash, k)]]

\* the outer catch: a failure for every keypair of the chunk
ChunkFailed(message) ==
  /\ bundleResults' =
       [k \in 1..keyCount |-> SwapFailure("Chunk processing failed", message)]
  /\ pc' = "done"

\* pool lookup, blockhash and one swap transaction per keypair; any failure
\* is caught by the outer catch, which returns a failure for every keypair
BuildChunk ==
  /\ caller = "processBuyChunk" /\ pc = "build"
  /\ \/ /\ \E message \in {PoolNotFound, BlockhashError} : ChunkFailed(message)
        /\ UNCHANGED <<blockhashes, bundledTxns>>
     \/ /\ blockhashes' = blockhashes + 1
        /\ \E failing \in {f \in SUBSET (1..keyCount) : Cardinality(f) <= 1} :
             LET built == BuildSwapTransactions(keyCount, blockhashes', failing)
             IN IF built.threw
                THEN ChunkFailed(SwapBuildError) /\ UNCHANGED bundledTxns
                ELSE /\ bundledTxns' = built.txs
                     /\ pc' = "send"
                     /\ UNCHANGED bundleResults
  /\ UNCHANGED <<caller, now, iterations, delaySeconds, maxRetries, keyCount,
                 walletKeyOk, lutCover, iter, attempt, submits, events, arrived,
                 waits, outcomes>>

\* A loop condition that allows one attempt more (not what the code does).
LoopContinues_OneMore(a, m) == a <= m + 1

\* for (let attempt = 1; attempt <= maxRetries; attempt++)
LoopContinues(a, m) == a <= m

\* A loop variable that is not incremented (not what the code does).
NextAttempt_Same(a) == a

\* attempt++
NextAttempt(a) == a + 1

\* the catch block of one attempt: the final attempt turns into a failure
\* for every keypair, any other attempt sleeps 2000 * attempt and goes on
AttemptFailed(message, evs) ==
  IF attempt = maxRetries
  THEN /\ bundleResults' =
            [k \in 1..keyCount |-> SwapFailure("Bundle submission failed", message)]
       /\ attempt' = NextAttempt(attempt)
       /\ pc' = "send"
       /\ events' = evs
  ELSE /\ events' = evs \cup {Event("sleep", now' + RetrySleepMs * attempt, 0, "none")}
       /\ pc' = "sleep"
       /\ UNCHANGED <<bundleResults, attempt>>

\* the head of the retry loop and the sendBundle call of one attempt; the
\* bundle is the one built before the loop
SubmitAttempt ==
  /\ caller = "processBuyChunk" /\ pc = "send"
  /\ now' = now
  /\ IF ~LoopContinues(attempt, maxRetries)
     THEN /\ pc' = "done"
          /\ UNCHANGED <<submits, waits, events, bundleResults, attempt>>
     ELSE \/ /\ AttemptFailed(SubmitErrorMessage, events)
             /\ UNCHANGED <<submits, waits>>
          \/ /\ SubmitAndAwait
             /\ pc' = "wait"
             /\ UNCHANGED <<bundleResults, attempt>>
  /\ UNCHANGED <<caller, iterations, delaySeconds, maxRetries, keyCount, walletKeyOk,
                 lutCover, iter, blockhashes, bundledTxns, arrived, outcomes>>

\* the result callback resolves the race: every transaction of the bundle is
\* reported successful and the loop is left
Attempt_Result(e) ==
  /\ caller = "processBuyChunk" /\ pc = "wait" /\ e.type = "result"
  /\ Fire(e, CurrentWait)
  /\ events' = events \ {e}
  /\ waits' = [waits EXCEPT ![CurrentWait] = Settled(@, e.at, "result", e.ref, e.kind)]
  /\ bundleResults' = [i \in 1..Len(bundledTxns) |-> SwapSuccess]
  /\ pc' = "done"
  /\ UNCHANGED <<caller, iterations, delaySeconds, maxRetries, keyCount, walletKeyOk,
                 lutCover, iter, attempt, blockhashes, bundledTxns, submits,
                 outcomes>>

\* the race rejects (stream error callback or timer)
Attempt_Rejected(e) ==
  /\ caller = "processBuyChunk" /\ pc = "wait"
  /\ e.type \in {"streamError", "timer"} /\ e.ref = CurrentWait
  /\ Fire(e, CurrentWait)
  /\ waits' = [waits EXCEPT ![CurrentWait] = Settled(@, e.at, e.type, 0, "none")]
  /\ AttemptFailed(IF e.type = "timer" THEN TimeoutMessage ELSE StreamErrorMessage,
                   events \ {e})
  /\ UNCHANGED <<caller, iterations, delaySeconds, maxRetries, keyCount, walletKeyOk,
                 lutCover, iter, blockhashes, bundledTxns, submits, outcomes>>

\* await this.sleep(2000 * attempt) ends: attempt++
RetrySleepEnds(e) ==
  /\ caller = "processBuyChunk" /\ pc = "sleep" /\ e.type = "sleep"
  /\ Fire(e, 0)
  /\ events' = events \ {e}
  /\ attempt' = NextAttempt(attempt)
  /\ pc' = "send"
  /\ UNCHANGED <<caller, iterations, delaySeconds, maxRetries, keyCount, walletKeyOk,
                 lutCover, iter, blockhashes, bundledTxns, submits, waits,
                 outcomes, bundleResults>>

\* ---------------- both callers ----------------

\* an event nobody is waiting for: the timer or stream error of a race that
\* is already settled, or a bundle result while no race is pending
StaleEvent(e) ==
  /\ pc \in {"build", "send", "wait", "sleep"}
  /\ ~(pc = "wait" /\ e.type = "result")
  /\ ~(pc = "wait" /\ e.type \in {"streamError", "timer"} /\ e.ref = CurrentWait)
  /\ e.type # "sleep"
  /\ Fire(e, 0)
  /\ events' = events \ {e}
  /\ UNCHANGED <<caller, pc, iterations, delaySeconds, maxRetries, keyCount,
                 walletKeyOk, lutCover, iter, attempt, blockhashes, bundledTxns,
                 submits, waits, outcomes, bundleResults>>

BundleKeyCounts == {1, 8}
ChunkKeyCounts == {1, 2}

BundleIdle ==
  /\ caller = "none" /\ pc = "idle" /\ now = 0
  /\ iterations = 0 /\ delaySeconds = 0 /\ maxRetries = 0 /\ keyCount = 0
  /\ walletKeyOk = TRUE /\ lutCover = "all" /\ iter = 0 /\ attempt = 0
  /\ blockhashes = 0 /\ bundledTxns = <<>> /\ submits = <<>> /\ events = {}
  /\ arrived = {} /\ waits = <<>> /\ outcomes = <<>> /\ bundleResults = <<>>

BundleInit ==
  /\ caller \in {"buyBundleV2", "processBuyChunk"}
  /\ pc = "build" /\ now = 0
  /\ IF caller = "buyBundleV2"
     THEN /\ iterations \in 1..MaxIterations
          /\ delaySeconds \in DelaySecondsChoices
          /\ keyCount \in BundleKeyCounts
          /\ walletKeyOk \in BOOLEAN
          /\ lutCover \in {"all", "pool"}
          /\ maxRetries = 0 /\ attempt = 0
     ELSE /\ maxRetries \in 0..MaxRetries
          /\ keyCount \in ChunkKeyCounts
          /\ attempt = 1
          /\ iterations = 0 /\ delaySeconds = 0 /\ walletKeyOk = TRUE
          /\ lutCover = "all"
  /\ iter = 0 /\ blockhashes = 0 /\ bundledTxns = <<>> /\ submits = <<>>
  /\ events = {} /\ arrived = {} /\ waits = <<>> /\ outcomes = <<>>
  /\ bundleResults = <<>>

\* processBuyChunk alone, called with params.maxRetries = RetryDepth for a
\* chunk of one keypair.
RetryDepth == 4

RetryInit ==
  /\ caller = "processBuyChunk" /\ pc = "build" /\ now = 0
  /\ maxRetries = RetryDepth /\ keyCount = 1 /\ attempt = 1
  /\ iterations = 0 /\ delaySeconds = 0 /\ walletKeyOk = TRUE /\ lutCover = "all"
  /\ iter = 0 /\ blockhashes = 0 /\ bundledTxns = <<>> /\ submits = <<>>
  /\ events = {} /\ arrived = {} /\ waits = <<>> /\ outcomes = <<>>
  /\ bundleResults = <<>>


(***************************************************************************)
(* Lookup-table provider (LookupTableProviderV2.ts).  Tables and addresses  *)
(* are numbered.  A table's on-chain address list is an ordered list that   *)
(* may hold an address more than once; a table may also not exist.          *)
(***************************************************************************)
NumTables == 4

MIN_ADDRESSES_TO_INCLUDE_TABLE == 2
MAX_TABLE_COUNT == 3

Tables == 1..NumTables
Addrs == 1..(2 * NumTables)

Layouts == {"pairs", "chain", "repeats", "triples"}

\* The address list of table t under each layout.
TableContents(layout, t) ==
  CASE layout = "pairs"   -> <<2 * t - 1, 2 * t>>
    [] layout = "chain"   -> <<t, t + 1>>
    [] layout = "repeats" -> <<t, t + 1, t + 1>>
    [] layout = "triples" -> <<t, t + 1, t + 2>>

NullResult == [threw |-> FALSE, isNull |-> TRUE, list |-> <<>>]
ListResult(list) == [threw |-> FALSE, isNull |-> FALSE, list |-> list]
ThrownResult == [threw |-> TRUE, isNull |-> FALSE, list |-> <<>>]

\* The body of the try block up to "return null" / the list: createAppConfigV2
\* or fetchAddressesForLookupTables throws when the RPC call fails, and
\* addressesByLookupTable[t] is undefined when the account is not there.
FetchAddresses(chain, t, rpcOk) ==
  IF ~rpcOk THEN ThrownResult
  ELSE IF t \in DOMAIN chain THEN ListResult(chain[t]) ELSE NullResult

\* A catch block that lets the error through (not what the code does).
CatchFetchError_Rethrows(result) == result

\* catch (error) { console.error(...); return null; }
CatchFetchError(result) == IF result.threw THEN NullResult ELSE result

\* Map.set on the cache.
CacheSet(cache, t, addresses) ==
  [x \in DOMAIN cache \cup {t} |-> IF x = t THEN addresses ELSE cache[x]]

\* The reverse mapping after updateCache: every address of the list gets the
\* table added to its (insertion-ordered) set of tables.
MappingAdd(mapping, t, addresses) ==
  [a \in DOMAIN mapping \cup Range(addresses) |->
     IF a \in Range(addresses)
     THEN IF a \in DOMAIN mapping
          THEN IF t \in Range(mapping[a]) THEN mapping[a]
               ELSE Append(mapping[a], t)
          ELSE <<t>>
     ELSE mapping[a]]

updateCache(provider, t, addresses) ==
  [lookupTableCache |-> CacheSet(provider.lookupTableCache, t, addresses),
   addressToLookupTablesMapping |->
     MappingAdd(provider.addressToLookupTablesMapping, t, addresses)]

\* A provider that never finds a table in its cache (not what the code does).
CacheHit_Never(provider, t) == FALSE

\* if (this.lookupTableCache.has(lutAddressStr))
CacheHit(provider, t) == t \in DOMAIN provider.lookupTableCache

\* The part of getLookupTableAddresses after the fetch has settled: give up
\* with null, or cache the list and return it.
CacheResponse(provider, t, response) ==
  LET got == CatchFetchError(response)
  IN [provider |-> IF got.isNull \/ got.threw THEN provider
                   ELSE updateCache(provider, t, got.list),
      result |-> got,
      fetched |-> TRUE]

\* The part of getLookupTableAddresses after a cache miss, with a fetch that
\* reads the chain as it is now.
FetchAndCache(provider, chain, t, rpcOk) ==
  CacheResponse(provider, t, FetchAddresses(chain, t, rpcOk))

\* getLookupTableAddresses from the cache check to the return: the provider
\* afterwards, the value returned and whether the network was used.
getLookupTableAddresses(provider, chain, t, rpcOk) ==
  IF CacheHit(provider, t)
  THEN [provider |-> provider,
        result |-> ListResult(provider.lookupTableCache[t]),
        fetched |-> FALSE]
  ELSE FetchAndCache(provider, chain, t, rpcOk)

NewProvider ==
  [lookupTableCache |-> <<>>, addressToLookupTablesMapping |-> <<>>]

\* "for (const lutAddr of knownLookupTables) await getLookupTableAddresses":
\* the provider after the loop; the fetches of the tables in failing fail.
RECURSIVE EnsureCached(_, _, _, _)
EnsureCached(provider, chain, known, failing) ==
  IF known = <<>> THEN provider
  ELSE EnsureCached(
         getLookupTableAddresses(provider, chain, Head(known),
                                 Head(known) \notin failing).provider,
         chain, Tail(known), failing)

\* A list without its repeated elements, first occurrences kept in order
\* (the iteration order of a JavaScript Set or Map filled from the list).
RECURSIVE Dedupe(_)
Dedupe(s) ==
  IF s = <<>> THEN <<>>
  ELSE LET front == Dedupe(SubSeq(s, 1, Len(s) - 1))
           last == s[Len(s)]
       IN IF last \in Range(front) THEN front ELSE Append(front, last)

TablesForAddress(mapping, a) == IF a \in DOMAIN mapping THEN mapping[a] ELSE <<>>

\* remainingAddresses after the counting loop: the distinct target addresses
\* that some cached table holds.
RemainingAddresses(mapping, addresses) ==
  {a \in Range(addresses) : TablesForAddress(mapping, a) # <<>>}

\* tableIntersections after the counting loop, as the list of its entries
\* in insertion order.
TableIntersections(mapping, addresses) ==
  LET targets == Dedupe(addresses)
      keys == Dedupe(Flatten([i \in 1..Len(targets) |->
                                TablesForAddress(mapping, targets[i])]))
  IN [i \in 1..Len(keys) |->
        [lutAddress |-> keys[i],
         intersectionSize |->
           Cardinality({a \in Range(targets) :
                          keys[i] \in Range(TablesForAddress(mapping, a))})]]

\* Array.prototype.sort((a, b) => b[1] - a[1]): descending and stable.
RECURSIVE InsertByIntersection(_, _)
InsertByIntersection(sorted, entry) ==
  IF sorted = <<>> THEN <<entry>>
  ELSE IF Head(sorted).intersectionSize >= entry.intersectionSize
       THEN <<Head(sorted)>> \o InsertByIntersection(Tail(sorted), entry)
       ELSE <<entry>> \o sorted

RECURSIVE SortedIntersections(_)
SortedIntersections(entries) ==
  IF entries = <<>> THEN <<>>
  ELSE InsertByIntersection(
         SortedIntersections(SubSeq(entries, 1, Len(entries) - 1)),
         entries[Len(entries)])

\* A selection loop without the table-count limit (not what the code does).
TableCountReached_Never(selectedTables) == FALSE

\* if (selectedTables.length >= MAX_TABLE_COUNT) break
TableCountReached(selectedTables) == Len(selectedTables) >= MAX_TABLE_COUNT

\* The selection loop from entry i of sortedIntersections on.
RECURSIVE SelectTables(_, _, _, _, _)
SelectTables(cache, sorted, i, selectedTables, remainingAddresses) ==
  IF i > Len(sorted) THEN selectedTables
  ELSE IF sorted[i].intersectionSize < MIN_ADDRESSES_TO_INCLUDE_TABLE
       THEN selectedTables
  ELSE IF TableCountReached(selectedTables) THEN selectedTables
  ELSE IF Cardinality(remainingAddresses) <= 1 THEN selectedTables
  ELSE IF sorted[i].lutAddress \notin DOMAIN cache
       THEN SelectTables(cache, sorted, i + 1, selectedTables,
                         remainingAddresses)
  ELSE LET matchingAddresses ==
             SelectSeq(cache[sorted[i].lutAddress],
                       LAMBDA a : a \in remainingAddresses)
       IN IF Len(matchingAddresses) >= MIN_ADDRESSES_TO_INCLUDE_TABLE
          THEN SelectTables(cache, sorted, i + 1,
                            Append(selectedTables,
                                   [lutAddress |-> sorted[i].lutAddress,
                                    addresses |-> matchingAddresses]),
                            remainingAddresses \ Range(matchingAddresses))
          ELSE SelectTables(cache, sorted, i + 1, selectedTables,
                            remainingAddresses)

\* computeIdealLookupTablesForAddresses after its caching loop.
SelectFromCached(warmed, addresses) ==
  [provider |-> warmed,
   selectedTables |->
     SelectTables(warmed.lookupTableCache,
                  SortedIntersections(
                    TableIntersections(warmed.addressToLookupTablesMapping,
                                       addresses)),
                  1, <<>>,
                  RemainingAddresses(warmed.addressToLookupTablesMapping,
                                     addresses))]

\* computeIdealLookupTablesForAddresses: the provider afterwards and the
\* tables returned.
computeIdealLookupTablesForAddresses(provider, chain, addresses, known, failing) ==
  SelectFromCached(EnsureCached(provider, chain, known, failing), addresses)

MaxCalls == 2

Provider ==
  [lookupTableCache |-> lookupTableCache,
   addressToLookupTablesMapping |-> addressToLookupTablesMapping]

Interval(lo, hi) == [i \in 1..(hi - lo + 1) |-> lo + i - 1]

\* The last call of computeIdealLookupTablesForAddresses: its arguments and
\* what it returned.
NoSelection ==
  [called |-> FALSE, addresses |-> <<>>, known |-> <<>>, selectedTables |-> <<>>]

\* A call of getLookupTableAddresses that has not returned yet; atStart is
\* what the chain holds for the table when the call begins.
PendingCall(t, returnedBefore) ==
  [table |-> t, returned |-> FALSE, after |-> returnedBefore,
   fetched |-> FALSE, rpcOk |-> TRUE, result |-> NullResult,
   atStart |-> FetchAddresses(lutOnChain, t, TRUE)]

\* What the RPC node may answer to the fetch of a call: the table as it was
\* at some moment between the request and the response.  A table is
\* extended at most once, so these are its list when the call began and its
\* list now.
Responses(call, rpcOk) ==
  IF rpcOk THEN {call.atStart, FetchAddresses(lutOnChain, call.table, TRUE)}
  ELSE {ThrownResult}

ReturnedCall(call, result, fetched) ==
  [call EXCEPT !.returned = TRUE, !.result = result, !.fetched = fetched]

ReturnedCalls == {i \in 1..Len(lutCalls) : lutCalls[i].returned}

LutIdle ==
  /\ lutOnChain = <<>> /\ lookupTableCache = <<>>
  /\ addressToLookupTablesMapping = <<>>
  /\ lutCalls = <<>> /\ lutSelection = NoSelection

\* The module's singleton provider right after construction, and the tables
\* that exist on chain.
LutInit ==
  /\ \E layout \in Layouts, existing \in {Tables, Tables \ {NumTables}} :
       lutOnChain = [t \in existing |-> TableContents(layout, t)]
  /\ lookupTableCache = NewProvider.lookupTableCache
  /\ addressToLookupTablesMapping = NewProvider.addressToLookupTablesMapping
  /\ lutCalls = <<>> /\ lutSelection = NoSelection

\* getLookupTableAddresses(t) up to its first await: a cache hit returns at
\* once, a miss starts the fetch.
GetLookupTableAddresses(t) ==
  /\ Len(lutCalls) < MaxCalls
  /\ LET call == PendingCall(t, ReturnedCalls)
     IN lutCalls' =
          Append(lutCalls,
                 IF CacheHit(Provider, t)
                 THEN ReturnedCall(call, ListResult(lookupTableCache[t]), FALSE)
                 ELSE call)
  /\ UNCHANGED <<lutOnChain, lookupTableCache, addressToLookupTablesMapping,
                 lutSelection>>

\* The fetch of call i completes (or fails) and the call returns.
GetLookupTableAddresses_Fetched(i, rpcOk) ==
  /\ ~lutCalls[i].returned
  /\ \E response \in Responses(lutCalls[i], rpcOk) :
     LET r == CacheResponse(Provider, lutCalls[i].table, response)
     IN /\ lookupTableCache' = r.provider.lookupTableCache
        /\ addressToLookupTablesMapping' = r.provider.addressToLookupTablesMapping
        /\ lutCalls' = [lutCalls EXCEPT
                          ![i] = [ReturnedCall(@, r.result, r.fetched)
                                    EXCEPT !.rpcOk = rpcOk]]
  /\ UNCHANGED <<lutOnChain, lutSelection>>

\* The address an extension appends to a table.
ExtensionAddress == 2 * NumTables

\* extendLUTV2 (or anyone holding the authority) appends an address to a
\* table on chain; the provider is not told.
ExtendOnChain(t) ==
  /\ t \in DOMAIN lutOnChain
  /\ ExtensionAddress \notin Range(lutOnChain[t])
  /\ lutOnChain' = [lutOnChain EXCEPT ![t] = Append(@, ExtensionAddress)]
  /\ UNCHANGED <<lookupTableCache, addressToLookupTablesMapping, lutCalls,
                 lutSelection>>

\* A call of computeIdealLookupTablesForAddresses.
ComputeIdealLookupTablesForAddresses(addresses, known, failing) ==
  /\ \E r \in {computeIdealLookupTablesForAddresses(Provider, lutOnChain,
                                                     addresses, known, failing)} :
        /\ lookupTableCache' = r.provider.lookupTableCache
        /\ addressToLookupTablesMapping' = r.provider.addressToLookupTablesMapping
        /\ lutSelection' = [called |-> TRUE, addresses |-> addresses,
                            known |-> known,
                            selectedTables |-> r.selectedTables]
  /\ UNCHANGED <<lutOnChain, lutCalls>>

\* Inputs of the selection: the first n addresses, or all of them with the
\* first one listed again, or addresses 2 and 3 alone, and the first k
\* tables as the known tables.
TargetLists ==
  {Interval(1, n) : n \in 0..(2 * NumTables)}
    \cup {Interval(1, 2 * NumTables) \o <<1>>}
    \cup {Interval(2, 3)}

KnownLists == {Interval(1, k) : k \in 0..NumTables}

\* The fetches that fail during one call: none, or that of the last known
\* table.
FailingFetches(known) ==
  {{}} \cup {{known[Len(known)]} : i \in {1} \cap DOMAIN known}


(***************************************************************************)
(* Jito tips.  Three producers of transaction lists take a tip amount:     *)
(* chunkWSOLATAInstructionsV2 (whose chunks buildWSOLATATransactionsV2      *)
(* turns into transactions one to one), extendLUTV2 and createWalletSwapsV2.*)
(* A transaction is represented by the list of its instructions.           *)
(***************************************************************************)
MaxTipItems == 12

NumTipAccounts == 8
WsolInstructionsPerTx == 10
ExtendChunkSize == 30
LamportsPerSol == 1000000000

TipAccounts == 1..NumTipAccounts

TipProducers == {"chunkWSOLATAInstructionsV2", "extendLUTV2", "createWalletSwapsV2"}

\* Tip amounts in thousandths of a SOL.
TipAmounts == {0, 1, 10}

\* Math.floor(jitoTipAmount * 1e9), and parseFloat(input) * LAMPORTS_PER_SOL,
\* for an amount given in thousandths of a SOL.
TipLamports(milliSol) == milliSol * (LamportsPerSol \div 1000)

Instruction(kind) == [kind |-> kind, to |-> 0, lamports |-> 0]

\* SystemProgram.transfer({fromPubkey: payer, toPubkey, lamports})
TransferInstruction(to, lamports) == [kind |-> "transfer", to |-> to, lamports |-> lamports]

\* chunkWSOLATAInstructionsV2: slices of instructionsPerTx instructions, the
\* tip transfer pushed onto the last slice when a tip is asked for.
chunkWSOLATAInstructionsV2(instructions, instructionsPerTx, jitoTipAmount, tipAccount) ==
  LET chunks == chunkArray(instructions, instructionsPerTx)
  IN IF jitoTipAmount > 0 /\ Len(chunks) > 0
     THEN [chunks EXCEPT ![Len(chunks)] =
             Append(@, TransferInstruction(tipAccount, TipLamports(jitoTipAmount)))]
     ELSE chunks

\* extendLUTV2: one transaction per chunk of addresses, holding the extend
\* instruction only; a requested tip is logged as "temporarily disabled".
extendLUTV2(addresses, jitoTipAmount, chunkSize) ==
  [i \in 1..Len(chunkArray(addresses, chunkSize)) |-> <<Instruction("extend")>>]

\* The instructions of the transactions createWalletSwapsV2 returns: the
\* buy instructions of the chunk's signers; its jitoTip parameter is not
\* used anywhere in its body.
SwapInstructions(swaps, jitoTip) ==
  [i \in 1..Len(swaps.txs) |->
     [k \in 1..Len(swaps.txs[i].ixSigners) |-> Instruction("swap")]]

NoTipResult == [called |-> FALSE, txs |-> <<>>]

TipIdle ==
  /\ tipProducer = "none" /\ tipItems = 0 /\ tipAmount = 0
  /\ tipResult = NoTipResult

TipInit ==
  /\ tipProducer \in TipProducers
  /\ tipItems \in 0..MaxTipItems
  /\ tipAmount \in TipAmounts
  /\ tipResult = NoTipResult

CallChunkWSOLATAInstructionsV2 ==
  /\ tipProducer = "chunkWSOLATAInstructionsV2" /\ ~tipResult.called
  /\ \E tipAccount \in TipAccounts :
       tipResult' =
         [called |-> TRUE,
          txs |-> chunkWSOLATAInstructionsV2(
                    [i \in 1..tipItems |-> Instruction("createAta")],
                    WsolInstructionsPerTx, tipAmount, tipAccount)]
  /\ UNCHANGED <<tipProducer, tipItems, tipAmount>>

CallExtendLUTV2 ==
  /\ tipProducer = "extendLUTV2" /\ ~tipResult.called
  /\ tipResult' = [called |-> TRUE,
                   txs |-> extendLUTV2(Keypairs(tipItems), tipAmount, ExtendChunkSize)]
  /\ UNCHANGED <<tipProducer, tipItems, tipAmount>>

\* buyBundleV2's call createWalletSwapsV2(..., jitoTipAmt, lookupTableAccount, config)
CallCreateWalletSwapsV2_Tip ==
  /\ tipProducer = "createWalletSwapsV2" /\ ~tipResult.called
  /\ tipResult' =
       [called |-> TRUE,
        txs |-> SwapInstructions(
                  createWalletSwapsV2(Keypairs(tipItems), {}, TRUE, "all", 1),
                  TipLamports(tipAmount))]
  /\ UNCHANGED <<tipProducer, tipItems, tipAmount>>


(***************************************************************************)
(* Persisted state file (keyInfoV2.json).  Three functions read the file,  *)
(* change some keys and write it back: saveLUTAddressV2 (createLUTV2.ts),   *)
(* updatePoolInfoV2 and writeDetailsToJsonFileV2 (createKeysV2.ts).  The    *)
(* file is either missing or holds a text; reading and parsing the text    *)
(* either yields a JSON object or fails (the file cannot be read, is       *)
(* empty, or JSON.parse rejects it, as it does a text that starts with a   *)
(* byte-order mark).  data is the object written in the text, key by key;  *)
(* every value stands for its JSON text.                                   *)
(***************************************************************************)
EmptyObject == [k \in {} |-> ""]

MissingFile == [exists |-> FALSE, parses |-> FALSE, data |-> EmptyObject]

\* fs.writeFileSync(path, JSON.stringify(object, null, 2))
FileWith(object) == [exists |-> TRUE, parses |-> TRUE, data |-> object]

\* An integer literal beyond Number.MAX_SAFE_INTEGER and the double that
\* JSON.parse makes of it (2^53 + 1 and 2^53).
UnsafeInteger == "9007199254740993"
NearestDouble == "9007199254740992"

\* JSON.parse followed by JSON.stringify, for one value: strings and small
\* numbers come back as they were, an unsafe integer as its nearest double.
JsonRoundTrip(value) == IF value = UnsafeInteger THEN NearestDouble ELSE value

\* JSON.parse(data), each value as JSON.stringify will write it
JsonParse(file) == [k \in DOMAIN file.data |-> JsonRoundTrip(file.data[k])]

\* object[key] = value
SetKey(object, key, value) ==
  [k \in DOMAIN object \cup {key} |-> IF k = key THEN value ELSE object[k]]

\* { ...first, ...second }
Spread(first, second) ==
  [k \in DOMAIN first \cup DOMAIN second |->
     IF k \in DOMAIN second THEN second[k] ELSE first[k]]

Timestamps == {"2025-01-01T00:00:00.000Z"}
LutAddresses == {"lutA"}
Pools == {"poolA"}
MarketIds == {"marketA"}
WalletCounts == {0, 1, 2}

PubkeyKey(i) == CASE i = 1 -> "pubkeyV2_1" [] i = 2 -> "pubkeyV2_2"
WalletAddress(i) == CASE i = 1 -> "wallet1" [] i = 2 -> "wallet2"

\* saveLUTAddressV2: existsSync, readFileSync and JSON.parse (an error is
\* logged and rethrown before anything is written), three keys set, and the
\* file written.
SaveLutKeys == {"addressLUT", "lutCreatedAt", "version"}

saveLUTAddressV2(file, lutAddress, createdAt) ==
  IF file.exists /\ ~file.parses THEN [threw |-> TRUE, file |-> file]
  ELSE LET poolInfo == IF file.exists THEN JsonParse(file) ELSE EmptyObject
       IN [threw |-> FALSE,
           file |-> FileWith(
             SetKey(SetKey(SetKey(poolInfo, "addressLUT", lutAddress),
                           "lutCreatedAt", createdAt),
                    "version", "V2"))]

\* wallets.forEach((wallet, index) => poolInfo[`pubkeyV2_${index + 1}`] = ...)
RECURSIVE SetPubkeys(_, _)
SetPubkeys(poolInfo, n) ==
  IF n = 0 THEN poolInfo
  ELSE SetKey(SetPubkeys(poolInfo, n - 1), PubkeyKey(n), WalletAddress(n))

UpdatePoolInfoKeys(n) ==
  {"numOfWallets", "version", "keyFormat"} \cup {PubkeyKey(i) : i \in 1..n}

\* updatePoolInfoV2: the defaults overlaid with the parsed file (a read or
\* parse error leaves the function before the write), the wallet keys set,
\* and the file written.
updatePoolInfoV2(file, n) ==
  IF file.exists /\ ~file.parses THEN [threw |-> TRUE, file |-> file]
  ELSE LET defaults == SetKey(SetKey(EmptyObject, "version", "v2"),
                              "keyFormat", "base64")
           poolInfo == IF file.exists THEN Spread(defaults, JsonParse(file))
                       ELSE defaults
       IN [threw |-> FALSE,
           file |-> FileWith(
             SetPubkeys(
               SetKey(SetKey(SetKey(poolInfo, "numOfWallets", ToString(n)),
                             "version", "v2"),
                      "keyFormat", "base64"),
               n))]

\* The keys writeDetailsToJsonFileV2 spreads over the file's data.
PoolDetails(pool, openTime, marketID) ==
  [k \in {"lpTokenAddr", "targetPool", "baseMint", "quoteMint", "openTime",
          "marketID"} |->
     CASE k = "openTime" -> openTime
       [] k = "marketID" -> marketID
       [] OTHER -> pool]

\* writeDetailsToJsonFileV2: the inner try reads and parses the file and its
\* catch only logs "doesn't exist or is empty", leaving fileData = {}; the
\* details are spread over fileData and the file written.
writeDetailsToJsonFileV2(file, pool, openTime, marketID) ==
  LET fileData == IF file.exists /\ file.parses THEN JsonParse(file)
                  ELSE EmptyObject
  IN [threw |-> FALSE,
      file |-> FileWith(Spread(fileData, PoolDetails(pool, openTime, marketID)))]

\* The last read-modify-write: who, the keys it sets itself, and the file
\* it found.
NoWrite == [writer |-> "none", set |-> {}, before |-> MissingFile, threw |-> FALSE]

WriteBy(writer, set, result) ==
  /\ stateFile' = result.file
  /\ lastWrite' = [writer |-> writer, set |-> set, before |-> stateFile,
                   threw |-> result.threw]

\* Files the program may find: none, or one holding some of these keys,
\* written by an earlier run or by hand.
InitialKeys == {"custom", "addressLUT", "pubkeyV2_2", "marketID"}

InitialValues(k) == IF k = "custom" THEN {"note", UnsafeInteger} ELSE {"old"}

InitialObjects ==
  {object \in UNION {[keys -> {"old", "note", UnsafeInteger}] :
                       keys \in SUBSET InitialKeys} :
     \A k \in DOMAIN object : object[k] \in InitialValues(k)}

InitialFiles ==
  {MissingFile}
    \cup {[exists |-> TRUE, parses |-> parses, data |-> object] :
            parses \in BOOLEAN, object \in InitialObjects}

FileIdle == stateFile = MissingFile /\ lastWrite = NoWrite

FileInit == stateFile \in InitialFiles /\ lastWrite = NoWrite

CallSaveLUTAddressV2 ==
  \E lutAddress \in LutAddresses, createdAt \in Timestamps :
    WriteBy("saveLUTAddressV2", SaveLutKeys,
            saveLUTAddressV2(stateFile, lutAddress, createdAt))

CallUpdatePoolInfoV2 ==
  \E n \in WalletCounts :
    WriteBy("updatePoolInfoV2", UpdatePoolInfoKeys(n), updatePoolInfoV2(stateFile, n))

CallWriteDetailsToJsonFileV2 ==
  \E pool \in Pools, openTime \in Timestamps, marketID \in MarketIds :
    WriteBy("writeDetailsToJsonFileV2",
            DOMAIN PoolDetails(pool, openTime, marketID),
            writeDetailsToJsonFileV2(stateFile, pool, openTime, marketID))

(***************************************************************************)
(* getMarketInfo (poolKeysReassignedV2.ts)                                 *)
(***************************************************************************)

\* } else if (reqs > 20) {
RetryLimit == 20

\* marketInfoResponse.value when the account is not found, and the null
\* that getMarketInfo returns
NullValue == "null"

\* the account data a request can find
MarketAccounts == {"marketAccountA", "marketAccountB"}

\* what one getAccountInfo request can answer
RpcValues == {NullValue} \cup MarketAccounts

\* A loop that allows one more request (not what the code does).
GiveUp_OneLater(reqs) == reqs > RetryLimit + 1

\* reqs > 20
GiveUp(reqs) == reqs > RetryLimit

\* marketInfoResponse.value
MarketInfoValue == mkResponses[Len(mkResponses)]

MarketIdle == mkPc = "idle" /\ mkReqs = 0 /\ mkResponses = <<>> /\ mkResult = "none"

\* getMarketInfo(marketId) was called and is about to send its first request
MarketInit == mkPc = "first" /\ mkReqs = 0 /\ mkResponses = <<>> /\ mkResult = "none"

\* marketInfoResponse = await config.rpc.getAccountInfo(marketId).send();
\* reqs++ (lines 21-22)
FirstRequest ==
  /\ mkPc = "first"
  /\ \E value \in RpcValues :
       /\ mkResponses' = Append(mkResponses, value)
       /\ mkReqs' = mkReqs + 1
       /\ mkPc' = "while"
  /\ UNCHANGED mkResult

\* one pass of the while loop (lines 24-33): the response is empty, the
\* request is sent again and counted; a non-empty answer breaks out of the
\* loop, more than 20 requests return null
LoopRequest ==
  /\ mkPc = "while" /\ MarketInfoValue = NullValue
  /\ \E value \in RpcValues :
       /\ mkResponses' = Append(mkResponses, value)
       /\ mkReqs' = mkReqs + 1
       /\ IF value # NullValue
          THEN mkPc' = "return" /\ UNCHANGED mkResult
          ELSE IF GiveUp(mkReqs')
               THEN mkPc' = "returned" /\ mkResult' = NullValue
               ELSE mkPc' = "while" /\ UNCHANGED mkResult

\* a request rejects: nothing catches it and getMarketInfo rejects
RequestRejects ==
  /\ \/ mkPc = "first"
     \/ mkPc = "while" /\ MarketInfoValue = NullValue
  /\ mkPc' = "thrown"
  /\ UNCHANGED <<mkReqs, mkResponses, mkResult>>

\* return marketInfoResponse.value (line 35), after the loop condition was
\* false or after the break
ReturnValue ==
  /\ \/ mkPc = "while" /\ MarketInfoValue # NullValue
     \/ mkPc = "return"
  /\ mkResult' = MarketInfoValue
  /\ mkPc' = "returned"
  /\ UNCHANGED <<mkReqs, mkResponses>>

(***************************************************************************)
(* Chunking loops (createLUTV2.ts, BuyTokenV2)                             *)
(***************************************************************************)

\* longest list passed to a chunking loop
MaxChunkItems == 3

\* largest chunk size passed to a chunking loop
MaxChunkSize == 2

\* number of chunks the engine's heap has room for
MaxChunks == 5

ChunkLoops == {"chunkAddresses", "chunkWSOLATAInstructionsV2", "chunkKeypairs"}

\* chunk sizes a caller passes: negative, zero and positive
ChunkSizes == (0 - 1)..MaxChunkSize

\* Array.prototype.slice's handling of one bound: a negative bound counts
\* from the end, and the result is kept within 0..len
SliceBound(len, k) ==
  IF k < 0 THEN (IF len + k < 0 THEN 0 ELSE len + k)
  ELSE IF k > len THEN len ELSE k

\* list.slice(start, end) of a list of len items, as the positions
\* (counted from 1) of the items it holds
Slice(len, start, end) ==
  [j \in 1..(SliceBound(len, end) - SliceBound(len, start)) |->
     SliceBound(len, start) + j]

ChunkIdle ==
  /\ ckLoop = "none" /\ ckLen = 0 /\ ckSize = 0 /\ ckI = 0
  /\ ckChunks = <<>> /\ ckPc = "idle"

\* one of the three functions was called with a list and a chunk size
ChunkInit ==
  /\ ckLoop \in ChunkLoops /\ ckLen \in 0..MaxChunkItems /\ ckSize \in ChunkSizes
  /\ ckI = 0 /\ ckChunks = <<>> /\ ckPc = "called"

\* extendLUTV2 and chunkWSOLATAInstructionsV2 return [] for an empty list
\* before their loop; chunkKeypairs has no such test
ReturnEmptyList ==
  /\ ckPc = "called" /\ ckLen = 0
  /\ ckLoop \in {"chunkAddresses", "chunkWSOLATAInstructionsV2"}
  /\ ckPc' = "returned"
  /\ UNCHANGED <<ckLoop, ckLen, ckSize, ckI, ckChunks>>

\* const chunks = []; for (let i = 0; ...
EnterLoop ==
  /\ ckPc = "called"
  /\ ckLen # 0 \/ ckLoop = "chunkKeypairs"
  /\ ckI' = 0 /\ ckChunks' = <<>> /\ ckPc' = "loop"
  /\ UNCHANGED <<ckLoop, ckLen, ckSize>>

\* i < list.length: chunks.push(list.slice(i, i + chunkSize)); i += chunkSize
LoopStep ==
  /\ ckPc = "loop" /\ ckI < ckLen /\ Len(ckChunks) < MaxChunks
  /\ ckChunks' = Append(ckChunks, Slice(ckLen, ckI, ckI + ckSize))
  /\ ckI' = ckI + ckSize
  /\ UNCHANGED <<ckLoop, ckLen, ckSize, ckPc>>

\* i < list.length with no room left for another chunk: the push fails and
\* the function does not return its chunks
HeapExhausted ==
  /\ ckPc = "loop" /\ ckI < ckLen /\ Len(ckChunks) >= MaxChunks
  /\ ckPc' = "heapExhausted"
  /\ UNCHANGED <<ckLoop, ckLen, ckSize, ckI, ckChunks>>

\* i >= list.length: return chunks
LoopExit ==
  /\ ckPc = "loop" /\ ckI >= ckLen
  /\ ckPc' = "returned"
  /\ UNCHANGED <<ckLoop, ckLen, ckSize, ckI, ckChunks>>

(***************************************************************************)
(* Specifications                                                          *)
(***************************************************************************)
NextBuilder ==
  \/ CallBuildTxnV2 /\ UNCHANGED <<swapVars, bundleVars, lutVars, tipVars, fileVars, marketVars, chunkVars>>
  \/ CallBuildSimpleTxnV2 /\ UNCHANGED <<swapVars, bundleVars, lutVars, tipVars, fileVars, marketVars, chunkVars>>
  \/ CallBuildPureV2Transaction /\ UNCHANGED <<swapVars, bundleVars, lutVars, tipVars, fileVars, marketVars, chunkVars>>

InitBuilder == BuilderInit /\ SwapsIdle /\ BundleIdle /\ LutIdle /\ TipIdle /\ FileIdle /\ MarketIdle /\ ChunkIdle

SpecBuilder == InitBuilder /\ [][NextBuilder]_vars

NextSwaps == CallCreateWalletSwapsV2 /\ UNCHANGED <<builderVars, bundleVars, lutVars, tipVars, fileVars, marketVars, chunkVars>>

InitSwaps == SwapsInit /\ BuilderIdle /\ BundleIdle /\ LutIdle /\ TipIdle /\ FileIdle /\ MarketIdle /\ ChunkIdle

SpecSwaps == InitSwaps /\ [][NextSwaps]_vars

NextBundle ==
  \/ BuildIteration /\ UNCHANGED <<builderVars, swapVars, lutVars, tipVars, fileVars, marketVars, chunkVars>>
  \/ SendBundleV2 /\ UNCHANGED <<builderVars, swapVars, lutVars, tipVars, fileVars, marketVars, chunkVars>>
  \/ \E e \in events : SendBundleV2_Result(e) /\ UNCHANGED <<builderVars, swapVars, lutVars, tipVars, fileVars, marketVars, chunkVars>>
  \/ \E e \in events : SendBundleV2_Rejected(e) /\ UNCHANGED <<builderVars, swapVars, lutVars, tipVars, fileVars, marketVars, chunkVars>>
  \/ \E e \in events : IterationDelayEnds(e) /\ UNCHANGED <<builderVars, swapVars, lutVars, tipVars, fileVars, marketVars, chunkVars>>
  \/ BuildChunk /\ UNCHANGED <<builderVars, swapVars, lutVars, tipVars, fileVars, marketVars, chunkVars>>
  \/ SubmitAttempt /\ UNCHANGED <<builderVars, swapVars, lutVars, tipVars, fileVars, marketVars, chunkVars>>
  \/ \E e \in events : Attempt_Result(e) /\ UNCHANGED <<builderVars, swapVars, lutVars, tipVars, fileVars, marketVars, chunkVars>>
  \/ \E e \in events : Attempt_Rejected(e) /\ UNCHANGED <<builderVars, swapVars, lutVars, tipVars, fileVars, marketVars, chunkVars>>
  \/ \E e \in events : RetrySleepEnds(e) /\ UNCHANGED <<builderVars, swapVars, lutVars, tipVars, fileVars, marketVars, chunkVars>>
  \/ \E e \in events : StaleEvent(e) /\ UNCHANGED <<builderVars, swapVars, lutVars, tipVars, fileVars, marketVars, chunkVars>>

InitBundle == BundleInit /\ BuilderIdle /\ SwapsIdle /\ LutIdle /\ TipIdle /\ FileIdle /\ MarketIdle /\ ChunkIdle

SpecBundle == InitBundle /\ [][NextBundle]_vars

NextRetry ==
  \/ BuildChunk /\ UNCHANGED <<builderVars, swapVars, lutVars, tipVars, fileVars, marketVars, chunkVars>>
  \/ SubmitAttempt /\ UNCHANGED <<builderVars, swapVars, lutVars, tipVars, fileVars, marketVars, chunkVars>>
  \/ \E e \in events : Attempt_Result(e) /\ UNCHANGED <<builderVars, swapVars, lutVars, tipVars, fileVars, marketVars, chunkVars>>
  \/ \E e \in events : Attempt_Rejected(e) /\ UNCHANGED <<builderVars, swapVars, lutVars, tipVars, fileVars, marketVars, chunkVars>>
  \/ \E e \in events : RetrySleepEnds(e) /\ UNCHANGED <<builderVars, swapVars, lutVars, tipVars, fileVars, marketVars, chunkVars>>
  \/ \E e \in events : StaleEvent(e) /\ UNCHANGED <<builderVars, swapVars, lutVars, tipVars, fileVars, marketVars, chunkVars>>

InitRetry == RetryInit /\ BuilderIdle /\ SwapsIdle /\ LutIdle /\ TipIdle /\ FileIdle /\ MarketIdle /\ ChunkIdle

SpecRetry == InitRetry /\ [][NextRetry]_vars

\* processBuyChunk for every maxRetries up to MaxRetries, with the event
\* loop running: a step that can be taken (the continuation of a settled
\* await, the callback of the earliest pending event) is taken.
InitChunk == BundleInit /\ caller = "processBuyChunk" /\ BuilderIdle /\ SwapsIdle /\ LutIdle /\ TipIdle /\ FileIdle /\ MarketIdle /\ ChunkIdle

SpecChunkLive == InitChunk /\ [][NextRetry]_vars /\ WF_vars(NextRetry)

NextLutCache ==
  \/ \E t \in Tables : GetLookupTableAddresses(t) /\ UNCHANGED <<builderVars, swapVars, bundleVars, tipVars, fileVars, marketVars, chunkVars>>
  \/ \E i \in 1..Len(lutCalls), rpcOk \in BOOLEAN :
       GetLookupTableAddresses_Fetched(i, rpcOk) /\ UNCHANGED <<builderVars, swapVars, bundleVars, tipVars, fileVars, marketVars, chunkVars>>

InitLut == LutInit /\ BuilderIdle /\ SwapsIdle /\ BundleIdle /\ TipIdle /\ FileIdle /\ MarketIdle /\ ChunkIdle

SpecLutCache == InitLut /\ [][NextLutCache]_vars

NextLutExtend ==
  \/ \E t \in Tables : GetLookupTableAddresses(t) /\ UNCHANGED <<builderVars, swapVars, bundleVars, tipVars, fileVars, marketVars, chunkVars>>
  \/ \E i \in 1..Len(lutCalls), rpcOk \in BOOLEAN :
       GetLookupTableAddresses_Fetched(i, rpcOk) /\ UNCHANGED <<builderVars, swapVars, bundleVars, tipVars, fileVars, marketVars, chunkVars>>
  \/ \E t \in Tables : ExtendOnChain(t) /\ UNCHANGED <<builderVars, swapVars, bundleVars, tipVars, fileVars, marketVars, chunkVars>>

SpecLutExtend == InitLut /\ [][NextLutExtend]_vars

NextLutSelect ==
  \E addresses \in TargetLists, known \in KnownLists :
    \E failing \in FailingFetches(known) :
      ComputeIdealLookupTablesForAddresses(addresses, known, failing)
        /\ UNCHANGED <<builderVars, swapVars, bundleVars, tipVars, fileVars, marketVars, chunkVars>>

SpecLutSelect == InitLut /\ [][NextLutSelect]_vars


NextTips ==
  \/ CallChunkWSOLATAInstructionsV2 /\ UNCHANGED <<builderVars, swapVars, bundleVars, lutVars, fileVars, marketVars, chunkVars>>
  \/ CallExtendLUTV2 /\ UNCHANGED <<builderVars, swapVars, bundleVars, lutVars, fileVars, marketVars, chunkVars>>
  \/ CallCreateWalletSwapsV2_Tip /\ UNCHANGED <<builderVars, swapVars, bundleVars, lutVars, fileVars, marketVars, chunkVars>>

InitTips == TipInit /\ BuilderIdle /\ SwapsIdle /\ BundleIdle /\ LutIdle /\ FileIdle /\ MarketIdle /\ ChunkIdle

SpecTips == InitTips /\ [][NextTips]_vars

NextStateFile ==
  \/ CallSaveLUTAddressV2 /\ UNCHANGED <<builderVars, swapVars, bundleVars, lutVars, tipVars, marketVars, chunkVars>>
  \/ CallUpdatePoolInfoV2 /\ UNCHANGED <<builderVars, swapVars, bundleVars, lutVars, tipVars, marketVars, chunkVars>>
  \/ CallWriteDetailsToJsonFileV2 /\ UNCHANGED <<builderVars, swapVars, bundleVars, lutVars, tipVars, marketVars, chunkVars>>

InitStateFile == FileInit /\ BuilderIdle /\ SwapsIdle /\ BundleIdle /\ LutIdle /\ TipIdle /\ MarketIdle /\ ChunkIdle

SpecStateFile == InitStateFile /\ [][NextStateFile]_vars


\* getMarketInfo with every awaited request settling: the RPC answers or
\* rejects each request, and the continuation then runs.
NextMarket ==
  \/ FirstRequest /\ UNCHANGED <<builderVars, swapVars, bundleVars, lutVars, tipVars, fileVars, chunkVars>>
  \/ LoopRequest /\ UNCHANGED <<builderVars, swapVars, bundleVars, lutVars, tipVars, fileVars, chunkVars>>
  \/ RequestRejects /\ UNCHANGED <<builderVars, swapVars, bundleVars, lutVars, tipVars, fileVars, chunkVars>>
  \/ ReturnValue /\ UNCHANGED <<builderVars, swapVars, bundleVars, lutVars, tipVars, fileVars, chunkVars>>

InitMarket == MarketInit /\ BuilderIdle /\ SwapsIdle /\ BundleIdle /\ LutIdle /\ TipIdle /\ FileIdle /\ ChunkIdle

SpecMarket == InitMarket /\ [][NextMarket]_vars /\ WF_vars(NextMarket)

\* The chunking loops, run to their end: synchronous code, every step that
\* can be taken is taken.
NextChunking ==
  \/ ReturnEmptyList /\ UNCHANGED <<builderVars, swapVars, bundleVars, lutVars, tipVars, fileVars, marketVars>>
  \/ EnterLoop /\ UNCHANGED <<builderVars, swapVars, bundleVars, lutVars, tipVars, fileVars, marketVars>>
  \/ LoopStep /\ UNCHANGED <<builderVars, swapVars, bundleVars, lutVars, tipVars, fileVars, marketVars>>
  \/ HeapExhausted /\ UNCHANGED <<builderVars, swapVars, bundleVars, lutVars, tipVars, fileVars, marketVars>>
  \/ LoopExit /\ UNCHANGED <<builderVars, swapVars, bundleVars, lutVars, tipVars, fileVars, marketVars>>

InitChunking == ChunkInit /\ BuilderIdle /\ SwapsIdle /\ BundleIdle /\ LutIdle /\ TipIdle /\ FileIdle /\ MarketIdle

SpecChunking == InitChunking /\ [][NextChunking]_vars /\ WF_vars(NextChunking)


(***************************************************************************)
(* Claims                                                                  *)
(***************************************************************************)

\* C1 (as stated): once a bundle has been submitted to the relay it is never
\* submitted again; any two submissions are of separately built bundles.
C1_NeverResubmitted ==
  \A i, j \in 1..Len(submits) :
     i # j => /\ submits[i].build # submits[j].build
              /\ submits[i].txs # submits[j].txs

\* C1 (amended): buyBundleV2/sendBundleV2 submit every built bundle at most
\* once, each iteration's bundle being built with a new blockhash;
\* processBuyChunk submits the one bundle it built at most maxRetries times,
\* and again only after an attempt whose race ended in a stream error or the
\* timeout (never after an attempt whose result was received).
C1_ResubmitOnlyInRetryLoop ==
  /\ caller = "buyBundleV2" => C1_NeverResubmitted
  /\ caller = "processBuyChunk" =>
       /\ Len(submits) <= maxRetries
       /\ \A j \in 2..Len(submits) :
            /\ submits[j].txs = submits[1].txs
            /\ waits[j - 1].by \in {"timer", "streamError"}

C1_Witness ==
  /\ caller = "processBuyChunk" /\ pc = "done"
  /\ Len(submits) = 2 /\ maxRetries = 2
  /\ waits[1].by = "timer" /\ waits[2].by = "result"

\* C2: when the 30-second timer settles the race, the caller gets a
\* timed-out outcome that is not a failure: sendBundleV2 throws the timeout
\* error, and processBuyChunk neither resubmits the bundle as if it had
\* failed nor reports its transactions as failed.
C2_TimeoutIsNotFailure ==
  \A i \in 1..Len(waits) :
     waits[i].by = "timer" =>
       /\ caller = "buyBundleV2" =>
            /\ outcomes[Len(outcomes)].kind = "thrown"
            /\ outcomes[Len(outcomes)].message = TimeoutMessage
       /\ caller = "processBuyChunk" =>
            /\ i = Len(waits)
            /\ \A r \in 1..Len(bundleResults) : bundleResults[r].success

\* C3: a transaction is reported successful only if the notification that
\* ended the wait says the bundle was accepted, never when it says dropped
\* or rejected.
C3_SuccessOnlyWhenAccepted ==
  \A r \in 1..Len(bundleResults) :
     bundleResults[r].success =>
        /\ Len(waits) > 0
        /\ waits[Len(waits)].by = "result"
        /\ waits[Len(waits)].value \notin {"dropped", "rejected"}

\* C4: after a successful submit the wait ends within 30 seconds: with the
\* relay's message if one is delivered before the timer fires, at the moment
\* it is delivered, and with the timeout at 30 seconds otherwise.
C4_WaitEndsWithin30s ==
  /\ pc = "wait" => now <= waits[Len(waits)].start + 30 * 1000
  /\ \A i \in 1..Len(waits) :
       LET w == waits[i]
           during == {a \in arrived : a.during = i}
       IN /\ w.by = "pending" => i = Len(waits) /\ pc = "wait" /\ during = {}
          /\ w.by # "pending" =>
               /\ w.start <= w.end /\ w.end <= w.start + 30 * 1000
               /\ w.end <= now
          /\ w.by = "timer" => w.end = w.start + 30 * 1000 /\ during = {}
          /\ w.by \in {"result", "streamError"} =>
               \E a \in during :
                  /\ during = {a}
                  /\ a.type = w.by /\ a.at = w.end /\ a.kind = w.value

C4_Witness ==
  \E i \in 1..Len(waits) :
     /\ waits[i].by = "result" /\ waits[i].value = "dropped"
     /\ waits[i].end = waits[i].start + 2000

\* C5: no builder returns a transaction whose serialized form, signatures
\* included, exceeds 1232 bytes.
C5_BuilderNeverReturnsOversize ==
  bResult.kind = "tx" => bResult.size <= 1232

\* C6: every transaction of every bundle passed to the relay by buyBundleV2
\* has a serialized size of at most 1232 bytes.
C6_SubmittedTxWithinLimit ==
  caller = "buyBundleV2" =>
     \A s \in 1..Len(submits) :
        \A t \in 1..Len(submits[s].txs) : submits[s].txs[t].size <= 1232

\* the transactions are consecutive slices of the keypairs in order, every
\* slice of ChunkSize signers except possibly the last
ChunkedCompletely(txs, n) ==
  /\ Len(txs) = CeilDiv(n, 7)
  /\ Flatten([i \in 1..Len(txs) |-> txs[i].ixSigners]) = Keypairs(n)
  /\ \A i \in 1..Len(txs) :
       /\ i < Len(txs) => Len(txs[i].ixSigners) = 7
       /\ Len(txs[i].ixSigners) \in 1..7

ClaimedBefore(selectedTables, i) ==
  UNION {Range(selectedTables[j].addresses) : j \in 1..(i - 1)}

\* Distinct target addresses of table t that are not in claimed.
UnclaimedTargets(t, claimed) ==
  (Range(lookupTableCache[t]) \cap Range(lutSelection.addresses)) \ claimed

\* C8 (as stated): every table computeIdealLookupTablesForAddresses returns
\* contains at least 2 distinct target addresses that no table selected
\* earlier in the same call has claimed.
C8_SelectedTableCoversTwoUnclaimed ==
  \A i \in 1..Len(lutSelection.selectedTables) :
    Cardinality(
      UnclaimedTargets(lutSelection.selectedTables[i].lutAddress,
                       ClaimedBefore(lutSelection.selectedTables, i))) >= 2

\* C9: computeIdealLookupTablesForAddresses never returns more than 3
\* tables, whatever is cached and whatever the known tables hold.
C9_AtMostThreeTables == Len(lutSelection.selectedTables) <= 3

\* C9's case: three tables were returned although a further cached table
\* still held two unclaimed target addresses.
C9_Witness ==
  /\ lutSelection.called
  /\ Len(lutSelection.selectedTables) = 3
  /\ \E t \in DOMAIN lookupTableCache :
       /\ \A i \in 1..3 : lutSelection.selectedTables[i].lutAddress # t
       /\ Cardinality(
            UnclaimedTargets(t, ClaimedBefore(lutSelection.selectedTables, 4))) >= 2

\* Call j of getLookupTableAddresses began after call i had returned, and
\* both asked for the same table, which exists on chain.  (Nothing in the
\* model changes a table's on-chain list.)
SuccessiveCalls(i, j) ==
  /\ i \in lutCalls[j].after
  /\ lutCalls[j].returned
  /\ lutCalls[j].table = lutCalls[i].table
  /\ lutCalls[i].table \in DOMAIN lutOnChain

\* C10 (as stated): two successive getLookupTableAddresses calls on the
\* same existing, unchanged table return the same address list, and the
\* second call performs no network fetch.
C10_SecondCallSameListNoFetch ==
  \A i, j \in 1..Len(lutCalls) :
    SuccessiveCalls(i, j) =>
      /\ ~lutCalls[i].result.isNull
      /\ lutCalls[j].result = lutCalls[i].result
      /\ ~lutCalls[j].fetched

\* C10 (amended): when the first of two successive calls on the same
\* existing, unchanged table returned the address list, the second call
\* returns the same list and performs no network fetch.
C10_SecondCallCachedAfterList ==
  \A i, j \in 1..Len(lutCalls) :
    (SuccessiveCalls(i, j) /\ ~lutCalls[i].result.isNull) =>
      /\ lutCalls[j].result = lutCalls[i].result
      /\ ~lutCalls[j].fetched

\* C10's case: a call fetched and returned a table's list, and a later call
\* for that table returned the same list without fetching.
C10_Witness ==
  \E i, j \in 1..Len(lutCalls) :
    /\ SuccessiveCalls(i, j)
    /\ lutCalls[i].fetched /\ ~lutCalls[i].result.isNull
    /\ lutCalls[j].result = lutCalls[i].result
    /\ lutCalls[j].result.list = lutOnChain[lutCalls[j].table]
    /\ ~lutCalls[j].fetched

\* C11: getLookupTableAddresses never throws, and it returns null when the
\* table does not exist or when the network fetch fails.
C11_NullNeverThrown ==
  \A i \in 1..Len(lutCalls) :
    lutCalls[i].returned =>
      /\ ~lutCalls[i].result.threw
      /\ (lutCalls[i].table \notin DOMAIN lutOnChain
            \/ (lutCalls[i].fetched /\ ~lutCalls[i].rpcOk))
           => lutCalls[i].result.isNull

\* C11's cases: one call returned null for a table that is not on chain
\* although the RPC worked, another returned null for an existing table
\* because its fetch failed.
C11_Witness ==
  \E i, j \in 1..Len(lutCalls) :
    /\ lutCalls[i].returned /\ lutCalls[i].fetched /\ lutCalls[i].rpcOk
    /\ lutCalls[i].table \notin DOMAIN lutOnChain
    /\ lutCalls[i].result.isNull
    /\ lutCalls[j].returned /\ lutCalls[j].fetched /\ ~lutCalls[j].rpcOk
    /\ lutCalls[j].table \in DOMAIN lutOnChain
    /\ lutCalls[j].result.isNull

\* C12: in buyBundleV2 the next iteration is built only after the previous
\* one's sendBundleV2 call has returned (its bundle, unless empty, was
\* submitted and its wait ended with a notification) and the delay between
\* iterations has elapsed; at most one bundle awaits its result at a time.
C12_IterationsInSequence ==
  caller = "buyBundleV2" =>
    /\ Cardinality({w \in 1..Len(waits) : waits[w].by = "pending"}) <= 1
    /\ (pc \in {"build", "send"} /\ iter >= 1) =>
         LET built == IF pc = "build" THEN blockhashes ELSE blockhashes - 1
         IN /\ \A w \in 1..Len(waits) : waits[w].by = "result"
            /\ Len(outcomes) = iter /\ built = iter
            /\ outcomes[iter].kind \in {"returned", "skipped"}
            /\ outcomes[iter].kind = "returned" =>
                 /\ Len(submits) >= 1
                 /\ submits[Len(submits)].build = built
                 /\ waits[Len(waits)].submit = Len(submits)
                 /\ now >= waits[Len(waits)].end + delaySeconds * 1000

\* C12's case: the second iteration has been built, 5 seconds after the
\* result of the first iteration's bundle arrived.
C12_Witness ==
  /\ caller = "buyBundleV2" /\ pc = "send" /\ iter = 1 /\ blockhashes = 2
  /\ delaySeconds = 5
  /\ Len(waits) = 1 /\ waits[1].by = "result"
  /\ now = waits[1].end + 5000

\* C13: whenever a nonzero tip is requested, the last transaction of the
\* list a producer returns contains a transfer of the requested amount to
\* one of the 8 tip accounts.
C13_LastTransactionCarriesTip ==
  (tipResult.called /\ tipAmount > 0 /\ Len(tipResult.txs) > 0) =>
     LET last == tipResult.txs[Len(tipResult.txs)]
     IN \E k \in 1..Len(last) :
          /\ last[k].kind = "transfer"
          /\ last[k].to \in 1..8
          /\ last[k].lamports = tipAmount * 1000000

C15_SubmittedTxFullySigned ==
  caller = "buyBundleV2" =>
     \A s \in 1..Len(submits) :
        \A t \in 1..Len(submits[s].txs) :
           /\ Wallet \in submits[s].txs[t].signedBy
           /\ Range(submits[s].txs[t].ixSigners) \subseteq submits[s].txs[t].signedBy

\* C16: the transaction list buyBundleV2 passes to the relay for an iteration
\* is that iteration's swap transactions in chunk order (the pool-creation
\* transaction is never built, so none precedes them): transaction t is
\* chunk t's, built with the iteration's blockhash, and none is missing
\* other than the last chunk's when the fee payer's key is unusable.
C16_BundleInChunkOrder ==
  caller = "buyBundleV2" =>
     \A s \in 1..Len(submits) :
        /\ Len(submits[s].txs) =
             CeilDiv(keyCount, ChunkSize) - (IF walletKeyOk THEN 0 ELSE 1)
        /\ \A t \in 1..Len(submits[s].txs) :
              /\ submits[s].txs[t].chunk = t
              /\ submits[s].txs[t].blockhash = submits[s].build

\* the second iteration submitted a bundle of two chunks
C16_Witness ==
  /\ caller = "buyBundleV2" /\ Len(submits) = 2
  /\ Len(submits[2].txs) = 2 /\ submits[2].build = 2
  /\ submits[2].txs[1].chunk = 1 /\ submits[2].txs[2].chunk = 2

\* Distinct target addresses of the last call that table t holds.
MatchedTargets(t) == Range(lookupTableCache[t]) \cap Range(lutSelection.addresses)

\* Known tables of the last call whose contents are cached.
CachedCandidates == Range(lutSelection.known) \cap DOMAIN lookupTableCache

\* C17: every returned table is returned with all the target addresses it
\* contains, and, unless the limit of 3 tables was reached, every candidate
\* table that contains at least 2 target addresses is returned.
C17_EveryOverlappingCandidateReturned ==
  LET selected == lutSelection.selectedTables
  IN /\ \A i \in 1..Len(selected) :
          MatchedTargets(selected[i].lutAddress) \subseteq Range(selected[i].addresses)
     /\ Len(selected) < MAX_TABLE_COUNT =>
          \A t \in CachedCandidates :
             Cardinality(MatchedTargets(t)) >= MIN_ADDRESSES_TO_INCLUDE_TABLE =>
                \E i \in 1..Len(selected) : selected[i].lutAddress = t

\* C18: every table computeIdealLookupTablesForAddresses returns is one of
\* the known tables passed in that call and has cached contents.
C18_ReturnedTablesAreCandidates ==
  \A i \in 1..Len(lutSelection.selectedTables) :
     /\ lutSelection.selectedTables[i].lutAddress \in Range(lutSelection.known)
     /\ lutSelection.selectedTables[i].lutAddress \in DOMAIN lookupTableCache

\* C19: after every read-modify-write of the state file, every key the file
\* held that the writer does not itself set is still present with the value
\* it had.
C19_UnsetKeysPreserved ==
  lastWrite.writer # "none" =>
     \A k \in DOMAIN lastWrite.before.data \ lastWrite.set :
        /\ k \in DOMAIN stateFile.data
        /\ stateFile.data[k] = lastWrite.before.data[k]

\* C20: in processBuyChunk an attempt that fails before the last one is
\* followed by a wait and another attempt, and the wait grows exponentially
\* with the attempt number: the waits after attempts 1 and 2 are 2000 ms
\* and 4000 ms, so the wait after attempt a is 2000 * 2^(a - 1) ms.
C20_RetryWaitGrowsExponentially ==
  [][(caller = "processBuyChunk" /\ pc # "sleep" /\ pc' = "sleep") =>
        \E e \in events' \ events :
           /\ e.type = "sleep"
           /\ e.at - now' = RetrySleepMs * 2 ^ (attempt - 1)]_vars

\* C21: when processBuyChunk fails to build the swap transaction of one
\* wallet of a chunk of several, the other wallets' transactions are still
\* bundled and submitted.
C21_OtherWalletsStillSubmitted ==
  (/\ caller = "processBuyChunk" /\ pc = "done" /\ keyCount >= 2
   /\ \E k \in 1..Len(bundleResults) : bundleResults[k].error = SwapBuildError) =>
     \E s \in 1..Len(submits) : Len(submits[s].txs) = keyCount - 1

\* C22: the provider's cache is append-only: no step removes an address
\* from a cached table's list, or a table from the reverse index of an
\* address.
C22_CacheAppendOnly ==
  [][/\ \A t \in DOMAIN lookupTableCache :
          /\ t \in DOMAIN lookupTableCache'
          /\ Range(lookupTableCache[t]) \subseteq Range(lookupTableCache'[t])
     /\ \A a \in DOMAIN addressToLookupTablesMapping :
          /\ a \in DOMAIN addressToLookupTablesMapping'
          /\ Range(addressToLookupTablesMapping[a])
               \subseteq Range(addressToLookupTablesMapping'[a])]_vars

\* C23: every transaction createWalletSwapsV2 returns contains at least one
\* instruction (each signer that is not skipped contributes its buy
\* instructions), also for a chunk in which every signer was skipped.
C23_NoEmptyTransaction ==
  (swResult.called /\ ~swResult.threw) =>
     \A i \in 1..Len(swResult.txs) : Len(swResult.txs[i].ixSigners) >= 1

\* C24: the result that resolves a bundle's wait is a notification about
\* that same bundle, never one about a bundle submitted earlier.
C24_ResultIsAboutAwaitedBundle ==
  \A w \in 1..Len(waits) :
     waits[w].by = "result" => waits[w].about = waits[w].submit

\* C25: whatever maxRetries is and whichever steps fail, processBuyChunk
\* returns one result per keypair of its chunk (buyToken appends the
\* results of its chunks in chunk order, so it then returns one result per
\* loaded keypair).
C25_OneResultPerKeypair ==
  (caller = "processBuyChunk" /\ pc = "done") => Len(bundleResults) = keyCount

\* C26: processBuyChunk always terminates, it submits the chunk's bundle at
\* most maxRetries times, and it submits nothing after an attempt for which
\* a bundle result was received (such an attempt is the last one).
C26_ProcessBuyChunkTerminates ==
  /\ <>(pc = "done")
  /\ [](/\ Len(submits) <= maxRetries
        /\ \A w \in 1..Len(waits) : waits[w].by = "result" => w = Len(submits))

\* C26's case: both attempts timed out and the call returned.
C26_Witness ==
  /\ caller = "processBuyChunk" /\ pc = "done" /\ maxRetries = 2
  /\ Len(submits) = 2 /\ waits[1].by = "timer" /\ waits[2].by = "timer"

\* C27: a bundle submitted in iteration i of buyBundleV2 holds only
\* transactions built in iteration i with the blockhash fetched in
\* iteration i: the iterations' bundles carry distinct, increasing fetches,
\* and no transaction of an earlier fetch is in a later bundle or in the
\* list about to be sent.
C27_BundleOfItsOwnIteration ==
  caller = "buyBundleV2" =>
     /\ \A s \in 1..Len(submits) :
          /\ submits[s].build <= iter + 1
          /\ \A r \in 1..(s - 1) : submits[r].build < submits[s].build
          /\ \A t \in 1..Len(submits[s].txs) :
               submits[s].txs[t].blockhash = submits[s].build
     /\ pc = "send" =>
          /\ blockhashes = iter + 1
          /\ \A t \in 1..Len(bundledTxns) : bundledTxns[t].blockhash = blockhashes

\* C27's case: the second iteration submitted its own bundle after the
\* first iteration submitted one.
C27_Witness ==
  /\ caller = "buyBundleV2" /\ iter = 1 /\ Len(submits) = 2
  /\ submits[1].build = 1 /\ submits[2].build = 2
  /\ Len(submits[1].txs) >= 1 /\ Len(submits[2].txs) >= 1
  /\ submits[2].txs[1].blockhash = 2

\* C28: the reverse index agrees with the cache: a table is listed under an
\* address in the reverse index if and only if that address is in the
\* table's cached list.
C28_ReverseIndexAgreesWithCache ==
  \A t \in DOMAIN lutOnChain \cup DOMAIN lookupTableCache,
     a \in DOMAIN addressToLookupTablesMapping
             \cup UNION {Range(lookupTableCache[c]) : c \in DOMAIN lookupTableCache} :
    (a \in DOMAIN addressToLookupTablesMapping
       /\ t \in Range(addressToLookupTablesMapping[a]))
    <=> (t \in DOMAIN lookupTableCache /\ a \in Range(lookupTableCache[t]))

\* Position of the first non-empty response among the requests made (0 if
\* every response was empty).
FirstFound ==
  IF \E k \in 1..Len(mkResponses) : mkResponses[k] # NullValue
  THEN CHOOSE k \in 1..Len(mkResponses) :
         /\ mkResponses[k] # NullValue
         /\ \A j \in 1..(k - 1) : mkResponses[j] = NullValue
  ELSE 0

\* C29: getMarketInfo always terminates, it issues at most 21 account
\* requests, it returns the first non-empty response, and it returns null
\* when none of its requests found the market account.
C29_GetMarketInfoTerminates ==
  /\ <>(mkPc \in {"returned", "thrown"})
  /\ [](/\ mkReqs = Len(mkResponses) /\ mkReqs <= 21
        /\ mkPc = "returned" =>
             IF FirstFound = 0
             THEN mkResult = NullValue
             ELSE mkResult = mkResponses[FirstFound] /\ FirstFound = mkReqs)

\* C29's case: 21 requests found nothing and null was returned.
C29_Witness ==
  /\ mkPc = "returned" /\ mkReqs = 21 /\ mkResult = NullValue
  /\ \A k \in 1..21 : mkResponses[k] = NullValue

\* C30: the chunking loops (chunkAddresses as used by extendLUTV2, the
\* slicing loop of chunkWSOLATAInstructionsV2, chunkKeypairs) terminate
\* for every list and every chunk size, zero and negative sizes included:
\* every call eventually returns its chunks.
C30_ChunkingLoopsTerminate == <>(ckPc = "returned")
====
